---- MODULE Spec2Model ----
(***************************************************************************)
(* embedded-time: fixed-point durations (src/src/duration.rs) over the     *)
(* integer capability contract (src/src/time_int.rs).                      *)
(*                                                                         *)
(* The library is a set of pure operations over immutable values.  The     *)
(* state machine holds one call at a time: the operation called (op), its  *)
(* operands (lhs, rhs), its destination type (dest) and what it returned   *)
(* (ret).                                                                  *)
(*                                                                         *)
(* fixed_point.rs, fraction.rs and rate.rs are not among the sources.      *)
(* Their operations (from_ticks, try_convert_from, rem, eq, partial_cmp,   *)
(* Fraction::checked_mul, Fraction::recip, the rate units) follow the      *)
(* specification, sections 4.1 and 4.4, and where the documentation tests  *)
(* and unit tests of duration.rs fix a result, those tests.                *)
(*                                                                         *)
(* u32 and u64 magnitudes exceed the range of the model checker's          *)
(* integers, so every unsigned integer of the program is a numeral: the    *)
(* sequence of its base-1000 digits, least significant first, without      *)
(* leading zero digits (zero is the empty sequence).  Lit reads a literal  *)
(* written as Rust writes it, 3_600_000_000_000 being                      *)
(* Lit(<<3, 600, 0, 0, 0>>).                                               *)
(***************************************************************************)
EXTENDS Integers, Sequences, FiniteSets, TLC

\* ------------------------------------------------------------------------
\* Unsigned integers of arbitrary size (the values of u32 / u64 and of the
\* exact quotients the claims speak about).
\* ------------------------------------------------------------------------

\* Three decimal digits to a group, as Rust literals are grouped.
Base == 10 * 10 * 10

RECURSIVE Strip(_)
\* Drop the most significant digits that are zero.
Strip(s) ==
    IF s = <<>> THEN <<>>
    ELSE IF s[Len(s)] = 0 THEN Strip(SubSeq(s, 1, Len(s) - 1))
    ELSE s

RECURSIVE Reverse(_)
Reverse(s) == IF s = <<>> THEN <<>> ELSE Append(Reverse(Tail(s)), Head(s))

\* A literal, most significant group first: Lit(<<4, 294, 967, 295>>).
Lit(groups) == Strip(Reverse(groups))

RECURSIVE Num(_)
\* A small non-negative integer as a numeral.
Num(k) == IF k = 0 THEN <<>> ELSE <<k % Base>> \o Num(k \div Base)

Zero == <<>>
One == <<1>>

RECURSIVE LessFrom(_, _, _)
\* a < b for numerals of the same length, comparing from digit i downwards.
LessFrom(a, b, i) ==
    IF i = 0 THEN FALSE
    ELSE IF a[i] # b[i] THEN a[i] < b[i]
    ELSE LessFrom(a, b, i - 1)

Less(a, b) ==
    IF Len(a) # Len(b) THEN Len(a) < Len(b) ELSE LessFrom(a, b, Len(a))

Leq(a, b) == ~Less(b, a)

RECURSIVE AddC(_, _, _)
AddC(a, b, c) ==
    IF a = <<>> /\ b = <<>> THEN (IF c = 0 THEN <<>> ELSE <<c>>)
    ELSE LET x == IF a = <<>> THEN 0 ELSE Head(a)
             y == IF b = <<>> THEN 0 ELSE Head(b)
             t == x + y + c
         IN  <<t % Base>> \o AddC(IF a = <<>> THEN <<>> ELSE Tail(a),
                                  IF b = <<>> THEN <<>> ELSE Tail(b),
                                  t \div Base)

Add(a, b) == AddC(a, b, 0)

RECURSIVE SubB(_, _, _)
\* a - b - borrow, for a >= b + borrow.
SubB(a, b, w) ==
    IF a = <<>> THEN <<>>
    ELSE LET y == IF b = <<>> THEN 0 ELSE Head(b)
             t == Head(a) - y - w
         IN  <<IF t < 0 THEN t + Base ELSE t>>
                 \o SubB(Tail(a), IF b = <<>> THEN <<>> ELSE Tail(b),
                         IF t < 0 THEN 1 ELSE 0)

Sub(a, b) == Strip(SubB(a, b, 0))

RECURSIVE MulDigitC(_, _, _)
MulDigitC(a, k, c) ==
    IF a = <<>> THEN (IF c = 0 THEN <<>> ELSE <<c>>)
    ELSE LET t == Head(a) * k + c
         IN  <<t % Base>> \o MulDigitC(Tail(a), k, t \div Base)

\* a * k for one digit k.
MulDigit(a, k) == IF k = 0 THEN <<>> ELSE MulDigitC(a, k, 0)

ShiftUp(a) == IF a = <<>> THEN <<>> ELSE <<0>> \o a

\* The integer a numeral of at most three digits stands for.
Small(a) ==
    (IF Len(a) > 0 THEN a[1] ELSE 0) + (IF Len(a) > 1 THEN Base * a[2] ELSE 0)
        + (IF Len(a) > 2 THEN Base * Base * a[3] ELSE 0)

RECURSIVE MulLong(_, _)
MulLong(a, b) ==
    IF b = <<>> THEN <<>>
    ELSE Add(MulDigit(a, Head(b)), ShiftUp(MulLong(a, Tail(b))))

\* a * b: at once when the product has at most three digits.
Mul(a, b) ==
    IF Len(a) + Len(b) <= 3 THEN Num(Small(a) * Small(b)) ELSE MulLong(a, b)

RECURSIVE QuotDigit(_, _, _, _)
\* The largest q in lo..hi with q * b <= r (lo * b <= r is given).
QuotDigit(r, b, lo, hi) ==
    IF lo = hi THEN lo
    ELSE LET mid == (lo + hi + 1) \div 2
         IN  IF Leq(MulDigit(b, mid), r) THEN QuotDigit(r, b, mid, hi)
             ELSE QuotDigit(r, b, lo, mid - 1)

RECURSIVE DivModFrom(_, _, _, _, _)
\* Long division of a by b # 0: digit i of a downwards, q the quotient digits
\* so far (least significant first), r the running remainder.
DivModFrom(a, b, i, q, r) ==
    IF i = 0 THEN [quot |-> Strip(q), rem |-> r]
    ELSE LET r1 == Strip(<<a[i]>> \o r)
             d == QuotDigit(r1, b, 0, Base - 1)
         IN  DivModFrom(a, b, i - 1, <<d>> \o q, Sub(r1, MulDigit(b, d)))

\* floor(a / b) and a mod b, for b # 0: at once for at most three digits.
Div(a, b) ==
    IF Less(a, b) THEN <<>>
    ELSE IF Len(a) <= 3 THEN Num(Small(a) \div Small(b))
    ELSE DivModFrom(a, b, Len(a), <<>>, <<>>).quot
Mod(a, b) ==
    IF Less(a, b) THEN a
    ELSE IF Len(a) <= 3 THEN Num(Small(a) % Small(b))
    ELSE DivModFrom(a, b, Len(a), <<>>, <<>>).rem

RECURSIVE Gcd(_, _)
Gcd(a, b) == IF b = <<>> THEN a ELSE Gcd(b, Mod(a, b))

\* ------------------------------------------------------------------------
\* Bounds of the inputs the model draws.
\* ------------------------------------------------------------------------

\* Magnitudes 0..MaxMag are drawn besides the boundary values below.
MaxMag == 3
\* Fraction components 0..MaxPart are drawn besides the documented ones.
MaxPart == 3

\* ------------------------------------------------------------------------
\* Integer representations: impl TimeInt for u32 / u64.
\* ------------------------------------------------------------------------

IntTypes == {"u32", "u64"}

U32_MAX == Lit(<<4, 294, 967, 295>>)
U64_MAX == Lit(<<18, 446, 744, 73, 709, 551, 615>>)

\* num::Bounded::max_value
MaxValue(t) == IF t = "u32" THEN U32_MAX ELSE U64_MAX

\* core::mem::size_of::<T>()
SizeOf(t) == IF t = "u32" THEN 4 ELSE 8

\* Option<T>
Some(v) == [some |-> TRUE, v |-> v]
None == [some |-> FALSE, v |-> Zero]

\* Result<T, ConversionError> for an integer T
OkInt(v) == [kind |-> "Ok", v |-> v]
ErrInt(e) == [kind |-> e, v |-> Zero]

\* num::CheckedMul::checked_mul in representation t
CheckedMul(t, a, b) ==
    LET p == Mul(a, b) IN IF Leq(p, MaxValue(t)) THEN Some(p) ELSE None

\* num::CheckedDiv::checked_div in representation t
CheckedDiv(t, a, b) == IF b = Zero THEN None ELSE Some(Div(a, b))

\* T::try_from(value): the value when it fits representation t
TryFromInt(t, a) == IF Leq(a, MaxValue(t)) THEN Some(a) ELSE None

\* ------------------------------------------------------------------------
\* Fraction: a pair of u32.
\* ------------------------------------------------------------------------

Fraction(n, d) == [numerator |-> n, denominator |-> d]

\* Mutant: the division is done before the multiplication.
CheckedMulFractionDivideFirst(t, value, fraction) ==
    LET q == CheckedDiv(t, value, fraction.denominator)
    IN  IF ~q.some THEN ErrInt("DivByZero")
        ELSE LET p == CheckedMul(t, q.v, fraction.numerator)
             IN  IF ~p.some THEN ErrInt("Overflow") ELSE OkInt(p.v)

\* Mutant: numerator and denominator taken for each other.
CheckedMulFractionSwapped(t, value, fraction) ==
    LET p == CheckedMul(t, value, fraction.denominator)
    IN  IF ~p.some THEN ErrInt("Overflow")
        ELSE LET q == CheckedDiv(t, p.v, fraction.numerator)
             IN  IF ~q.some THEN ErrInt("DivByZero") ELSE OkInt(q.v)

\* Mutant: wrapping_mul in place of checked_mul.
CheckedMulFractionWrapping(t, value, fraction) ==
    LET p == Mod(Mul(value, fraction.numerator), Add(MaxValue(t), One))
        q == CheckedDiv(t, p, fraction.denominator)
    IN  IF ~q.some THEN ErrInt("DivByZero") ELSE OkInt(q.v)

\* TimeInt::checked_mul_fraction: multiply by the numerator, then divide by
\* the denominator, both checked, in the value's own representation t.
CheckedMulFraction(t, value, fraction) ==
    LET p == CheckedMul(t, value, fraction.numerator)
    IN  IF ~p.some THEN ErrInt("Overflow")
        ELSE LET q == CheckedDiv(t, p.v, fraction.denominator)
             IN  IF ~q.some THEN ErrInt("DivByZero") ELSE OkInt(q.v)

\* Mutant: the body of checked_mul_fraction, the fraction not inverted.
CheckedDivFractionAsMul(t, value, fraction) ==
    LET p == CheckedMul(t, value, fraction.numerator)
    IN  IF ~p.some THEN ErrInt("Overflow")
        ELSE LET q == CheckedDiv(t, p.v, fraction.denominator)
             IN  IF ~q.some THEN ErrInt("DivByZero") ELSE OkInt(q.v)

\* TimeInt::checked_div_fraction: multiply by the denominator, then divide
\* by the numerator.
CheckedDivFraction(t, value, fraction) ==
    LET p == CheckedMul(t, value, fraction.denominator)
    IN  IF ~p.some THEN ErrInt("Overflow")
        ELSE LET q == CheckedDiv(t, p.v, fraction.numerator)
             IN  IF ~q.some THEN ErrInt("DivByZero") ELSE OkInt(q.v)

\* Result<Fraction, ConversionError>
OkFraction(f) == [kind |-> "Ok", f |-> f]
ErrFraction(e) == [kind |-> e, f |-> Fraction(Zero, One)]

\* Fraction::checked_mul: the product of two fractions, reduced; Overflow
\* when the numerator product or the denominator product leaves u32.
FractionCheckedMul(a, b) ==
    LET n == Mul(a.numerator, b.numerator)
        d == Mul(a.denominator, b.denominator)
        g == Gcd(n, d)
    IN  IF Less(U32_MAX, n) \/ Less(U32_MAX, d) THEN ErrFraction("Overflow")
        ELSE IF g = Zero THEN OkFraction(Fraction(n, d))
        ELSE OkFraction(Fraction(Div(n, g), Div(d, g)))

\* Fraction::recip: numerator and denominator swapped (to_rate uses the
\* result as it is; no scaling factor of a unit has a zero numerator).
Recip(f) == Fraction(f.denominator, f.numerator)

\* ------------------------------------------------------------------------
\* Units: impl_duration! instantiations, and the rate units to_rate targets.
\* ------------------------------------------------------------------------

DurationUnits ==
    {"Hours", "Minutes", "Seconds", "Milliseconds", "Microseconds", "Nanoseconds"}

RateUnits == {"Hertz", "Kilohertz", "Megahertz"}

\* <$name<T> as FixedPoint>::SCALING_FACTOR = Fraction::new($numer, $denom)
DurationScalingFactor(unit) ==
    CASE unit = "Hours"        -> Fraction(Lit(<<3, 600>>), One)
      [] unit = "Minutes"      -> Fraction(Num(60), One)
      [] unit = "Seconds"      -> Fraction(One, One)
      [] unit = "Milliseconds" -> Fraction(One, Lit(<<1, 0>>))
      [] unit = "Microseconds" -> Fraction(One, Lit(<<1, 0, 0>>))
      [] unit = "Nanoseconds"  -> Fraction(One, Lit(<<1, 0, 0, 0>>))

\* The rate units' SCALING_FACTOR
RateScalingFactor(unit) ==
    CASE unit = "Hertz"     -> Fraction(One, One)
      [] unit = "Kilohertz" -> Fraction(Lit(<<1, 0>>), One)
      [] unit = "Megahertz" -> Fraction(Lit(<<1, 0, 0>>), One)

ScalingFactor(unit) ==
    IF unit \in DurationUnits THEN DurationScalingFactor(unit)
    ELSE RateScalingFactor(unit)

\* ------------------------------------------------------------------------
\* Values.  A fixed-point value of a named unit carries its magnitude; its
\* scaling factor is its type's (sf repeats it).  A Generic carries both.
\* ------------------------------------------------------------------------

\* $name::<T>(value) / FixedPoint::new
Named(unit, int, mag) ==
    [unit |-> unit, int |-> int, mag |-> mag, sf |-> ScalingFactor(unit)]

\* Generic::new(integer, scaling_factor)
Generic(int, mag, sf) == [unit |-> "Generic", int |-> int, mag |-> mag, sf |-> sf]

\* A bare integer operand, and a bare Fraction operand.
IntOperand(int, mag) ==
    [unit |-> "Int", int |-> int, mag |-> mag, sf |-> Fraction(One, One)]
FractionOperand(f) == [unit |-> "Fraction", int |-> "u32", mag |-> Zero, sf |-> f]

NoValue == [unit |-> "None", int |-> "u32", mag |-> Zero, sf |-> Fraction(One, One)]

\* Result<value, ConversionError>; "Panic" is a trap of an operator.
Ok(v) == [kind |-> "Ok", val |-> v]
Err(e) == [kind |-> e, val |-> NoValue]

\* An integer result as a result holding a bare integer of representation t.
IntResult(t, r) == IF r.kind = "Ok" THEN Ok(IntOperand(t, r.v)) ELSE Err(r.kind)

\* ------------------------------------------------------------------------
\* The tick conversion (fixed_point::from_ticks and its callers).
\* ------------------------------------------------------------------------

\* The wider of two representations, compared by storage width; the
\* source's when the widths are equal.
Wider(srcInt, destInt) == IF SizeOf(destInt) > SizeOf(srcInt) THEN destInt ELSE srcInt

\* fixed_point::from_ticks(ticks, scaling_factor) -> Result<Dest, _>: the
\* combined fraction C = Fs * Fd.recip() by Fraction::checked_mul, then
\* ticks * C by checked_mul_fraction in the wider of the source's and the
\* destination's representation, then narrowed into the destination's.
FromTicks(srcInt, ticks, scaling_factor, destUnit, destInt) ==
    LET c == FractionCheckedMul(scaling_factor, Recip(ScalingFactor(destUnit)))
        wide == Wider(srcInt, destInt)
    IN  IF c.kind # "Ok" THEN Err(c.kind)
        ELSE LET scaled == CheckedMulFraction(wide, ticks, c.f)
             IN  IF scaled.kind # "Ok" THEN Err(scaled.kind)
                 ELSE IF ~TryFromInt(destInt, scaled.v).some
                      THEN Err("ConversionFailure")
                 ELSE Ok(Named(destUnit, destInt, scaled.v))

\* Dest::try_convert_from(source): a named value into another named type.
TryConvertFrom(source, destUnit, destInt) ==
    FromTicks(source.int, source.mag, ScalingFactor(source.unit), destUnit, destInt)

\* Mutant: the destination's own scaling factor passed for the Generic's.
TryFromGenericOwnFactor(generic_duration, destUnit, destInt) ==
    FromTicks(generic_duration.int, generic_duration.mag, ScalingFactor(destUnit),
              destUnit, destInt)

\* Mutant: the integer is narrowed into DestInt before it is scaled.
TryFromGenericNarrowFirst(generic_duration, destUnit, destInt) ==
    IF ~TryFromInt(destInt, generic_duration.mag).some THEN Err("ConversionFailure")
    ELSE FromTicks(destInt, generic_duration.mag, generic_duration.sf, destUnit, destInt)

\* impl TryFrom<Generic<SourceInt>> for $name<DestInt>
TryFromGeneric(generic_duration, destUnit, destInt) ==
    FromTicks(generic_duration.int, generic_duration.mag, generic_duration.sf,
              destUnit, destInt)

\* FixedPoint::into_ticks(self, fraction) -> Result<DestInt, _>: the ticks of
\* self under the scaling factor fraction: C = Fs * fraction.recip(), then
\* ticks * C in the wider representation, then narrowed into DestInt.
IntoTicks(self, fraction, destInt) ==
    LET c == FractionCheckedMul(ScalingFactor(self.unit), Recip(fraction))
        wide == Wider(self.int, destInt)
    IN  IF c.kind # "Ok" THEN ErrInt(c.kind)
        ELSE LET scaled == CheckedMulFraction(wide, self.mag, c.f)
             IN  IF scaled.kind # "Ok" THEN ErrInt(scaled.kind)
                 ELSE IF ~TryFromInt(destInt, scaled.v).some
                      THEN ErrInt("ConversionFailure")
                 ELSE OkInt(scaled.v)

\* Mutant: the Generic is built with the duration's own scaling factor.
ToGenericOwnFactor(self, scaling_factor, destInt) ==
    LET ticks == IntoTicks(self, scaling_factor, destInt)
    IN  IF ticks.kind # "Ok" THEN Err(ticks.kind)
        ELSE Ok(Generic(destInt, ticks.v, ScalingFactor(self.unit)))

\* Duration::to_generic::<DestInt>(self, scaling_factor)
ToGeneric(self, scaling_factor, destInt) ==
    LET ticks == IntoTicks(self, scaling_factor, destInt)
    IN  IF ticks.kind # "Ok" THEN Err(ticks.kind)
        ELSE Ok(Generic(destInt, ticks.v, scaling_factor))

\* Mutant: the product of the scaling factors used without .recip().
ToRateWithoutRecip(self, rateUnit, rateInt) ==
    LET product == FractionCheckedMul(ScalingFactor(self.unit), ScalingFactor(rateUnit))
    IN  IF product.kind # "Ok" THEN Err(product.kind)
        ELSE
        LET conversion_factor == product.f
            t == IF SizeOf(self.int) >= SizeOf(rateInt) THEN self.int ELSE rateInt
            divisor == CheckedMul(t, self.mag, conversion_factor.denominator)
        IN  IF ~divisor.some THEN Err("Overflow")
            ELSE LET q == CheckedDiv(t, conversion_factor.numerator, divisor.v)
                 IN  IF ~q.some THEN Err("DivByZero")
                     ELSE FromTicks(t, q.v, ScalingFactor(rateUnit), rateUnit, rateInt)

\* Mutant: the failed division reported with the multiplication's error.
ToRateDivisionAsOverflow(self, rateUnit, rateInt) ==
    LET product == FractionCheckedMul(ScalingFactor(self.unit), ScalingFactor(rateUnit))
    IN  IF product.kind # "Ok" THEN Err(product.kind)
        ELSE
        LET conversion_factor == Recip(product.f)
            t == IF SizeOf(self.int) >= SizeOf(rateInt) THEN self.int ELSE rateInt
            divisor == CheckedMul(t, self.mag, conversion_factor.denominator)
        IN  IF ~divisor.some THEN Err("Overflow")
            ELSE LET q == CheckedDiv(t, conversion_factor.numerator, divisor.v)
                 IN  IF ~q.some THEN Err("Overflow")
                     ELSE FromTicks(t, q.v, ScalingFactor(rateUnit), rateUnit, rateInt)

\* Mutant: a quotient of zero reported as DivByZero.
ToRateZeroQuotientAsError(self, rateUnit, rateInt) ==
    LET product == FractionCheckedMul(ScalingFactor(self.unit), ScalingFactor(rateUnit))
    IN  IF product.kind # "Ok" THEN Err(product.kind)
        ELSE
        LET conversion_factor == Recip(product.f)
            t == IF SizeOf(self.int) >= SizeOf(rateInt) THEN self.int ELSE rateInt
            divisor == CheckedMul(t, self.mag, conversion_factor.denominator)
        IN  IF ~divisor.some THEN Err("Overflow")
            ELSE LET q == CheckedDiv(t, conversion_factor.numerator, divisor.v)
                 IN  IF ~q.some \/ q.v = Zero THEN Err("DivByZero")
                     ELSE FromTicks(t, q.v, ScalingFactor(rateUnit), rateUnit, rateInt)

\* Duration::to_rate::<Rate>
ToRate(self, rateUnit, rateInt) ==
    LET product == FractionCheckedMul(ScalingFactor(self.unit), ScalingFactor(rateUnit))
    IN  IF product.kind # "Ok" THEN Err(product.kind)
        ELSE
        LET conversion_factor == Recip(product.f)
            \* The branch taken computes in Self::T when it is at least as
            \* wide as Rate::T, and otherwise in Rate::T, into which the
            \* narrower magnitude always converts.
            t == IF SizeOf(self.int) >= SizeOf(rateInt) THEN self.int ELSE rateInt
            divisor == CheckedMul(t, self.mag, conversion_factor.denominator)
        IN  IF ~divisor.some THEN Err("Overflow")
            ELSE LET q == CheckedDiv(t, conversion_factor.numerator, divisor.v)
                 IN  IF ~q.some THEN Err("DivByZero")
                     ELSE FromTicks(t, q.v, ScalingFactor(rateUnit), rateUnit, rateInt)

\* ------------------------------------------------------------------------
\* core::time::Duration: whole seconds (u64) and nanoseconds below a second.
\* ------------------------------------------------------------------------

NANOS_PER_SEC == Lit(<<1, 0, 0, 0>>)
NANOS_PER_MILLI == Lit(<<1, 0, 0>>)
NANOS_PER_MICRO == Lit(<<1, 0>>)
MILLIS_PER_SEC == Lit(<<1, 0>>)
MICROS_PER_SEC == Lit(<<1, 0, 0>>)

CoreDuration(secs, nanos) ==
    [unit |-> "core::time::Duration", secs |-> secs, nanos |-> nanos]

\* core::time::Duration::from_secs / from_millis / from_micros / from_nanos (u64)
FromSecs(secs) == CoreDuration(secs, Zero)
FromMillis(millis) ==
    CoreDuration(Div(millis, MILLIS_PER_SEC), Mul(Mod(millis, MILLIS_PER_SEC), NANOS_PER_MILLI))
FromMicros(micros) ==
    CoreDuration(Div(micros, MICROS_PER_SEC), Mul(Mod(micros, MICROS_PER_SEC), NANOS_PER_MICRO))
FromNanos(nanos) == CoreDuration(Div(nanos, NANOS_PER_SEC), Mod(nanos, NANOS_PER_SEC))

\* core::time::Duration::as_secs (u64) / as_millis / as_micros / as_nanos (u128)
AsSecs(core_duration) == core_duration.secs
AsMillis(core_duration) ==
    Add(Mul(core_duration.secs, MILLIS_PER_SEC), Div(core_duration.nanos, NANOS_PER_MILLI))
AsMicros(core_duration) ==
    Add(Mul(core_duration.secs, MICROS_PER_SEC), Div(core_duration.nanos, NANOS_PER_MICRO))
AsNanos(core_duration) ==
    Add(Mul(core_duration.secs, NANOS_PER_SEC), core_duration.nanos)

\* The units of the ge_secs arm of impl_duration!
GeSecs == {"Hours", "Minutes", "Seconds"}

\* Self::$from_core_dur(integer.into()) of the unit
FromCoreDur(unit, integer) ==
    CASE unit = "Milliseconds" -> FromMillis(integer)
      [] unit = "Microseconds" -> FromMicros(integer)
      [] unit = "Nanoseconds"  -> FromNanos(integer)

\* core_duration.$as_core_dur() of the unit
AsCoreDur(unit, core_duration) ==
    CASE unit = "Milliseconds" -> AsMillis(core_duration)
      [] unit = "Microseconds" -> AsMicros(core_duration)
      [] unit = "Nanoseconds"  -> AsNanos(core_duration)

\* Mutant: the seconds are computed in the duration's own integer type.
ToCoreSecondsOwnInt(duration) ==
    IF duration.unit \in GeSecs
    THEN LET seconds == TryConvertFrom(duration, "Seconds", duration.int)
         IN  IF seconds.kind # "Ok" THEN Err(seconds.kind)
             ELSE Ok(FromSecs(seconds.val.mag))
    ELSE Ok(FromCoreDur(duration.unit, duration.mag))

\* impl TryFrom<$name<T>> for core::time::Duration, both arms
ToCore(duration) ==
    IF duration.unit \in GeSecs
    THEN LET seconds == TryConvertFrom(duration, "Seconds", "u64")
         IN  IF seconds.kind # "Ok" THEN Err(seconds.kind)
             ELSE Ok(FromSecs(seconds.val.mag))
    ELSE Ok(FromCoreDur(duration.unit, duration.mag))

\* Mutant: the part below a second alone (subsec_millis for as_millis, ...).
FromCoreSubsecOnly(core_duration, unit, int) ==
    IF unit \in GeSecs
    THEN TryConvertFrom(Named("Seconds", "u64", AsSecs(core_duration)), unit, int)
    ELSE LET value == TryFromInt(int, AsCoreDur(unit, CoreDuration(Zero, core_duration.nanos)))
         IN  IF ~value.some THEN Err("ConversionFailure")
             ELSE Ok(Named(unit, int, value.v))

\* impl TryFrom<core::time::Duration> for $name<T>, both arms
FromCore(core_duration, unit, int) ==
    IF unit \in GeSecs
    THEN TryConvertFrom(Named("Seconds", "u64", AsSecs(core_duration)), unit, int)
    ELSE LET value == TryFromInt(int, AsCoreDur(unit, core_duration))
         IN  IF ~value.some THEN Err("ConversionFailure")
             ELSE Ok(Named(unit, int, value.v))

\* ------------------------------------------------------------------------
\* Operators between two durations.
\* ------------------------------------------------------------------------

\* FixedPoint::add: the right operand is converted into the left operand's
\* type, then the integers are added with the native +, which traps when
\* the sum leaves the type.
FixedPointAdd(self, rhs) ==
    LET converted == TryConvertFrom(rhs, self.unit, self.int)
        sum == Add(self.mag, converted.val.mag)
    IN  IF converted.kind # "Ok" THEN Err("Panic")
        ELSE IF Less(MaxValue(self.int), sum) THEN Err("Panic")
        ELSE Ok(Named(self.unit, self.int, sum))

\* Mutant: wrapping_add in place of +.
AddWrapping(self, rhs) ==
    LET converted == TryConvertFrom(rhs, self.unit, self.int)
        sum == Add(self.mag, converted.val.mag)
    IN  IF converted.kind # "Ok" THEN Err("Panic")
        ELSE Ok(Named(self.unit, self.int, Mod(sum, Add(MaxValue(self.int), One))))

\* impl ops::Add<Rhs> for $name<T>
Plus(self, rhs) == FixedPointAdd(self, rhs)

\* FixedPoint::sub: as add, with the native -, which traps below zero.
FixedPointSub(self, rhs) ==
    LET converted == TryConvertFrom(rhs, self.unit, self.int)
    IN  IF converted.kind # "Ok" THEN Err("Panic")
        ELSE IF Less(self.mag, converted.val.mag) THEN Err("Panic")
        ELSE Ok(Named(self.unit, self.int, Sub(self.mag, converted.val.mag)))

\* impl ops::Sub<Rhs> for $name<T>
Minus(self, rhs) == FixedPointSub(self, rhs)

\* FixedPoint::rem: the right operand is converted into the left operand's
\* type; a right operand that converts to zero yields zero (tests::remainder).
FixedPointRem(self, rhs) ==
    LET converted == TryConvertFrom(rhs, self.unit, self.int)
    IN  IF converted.kind # "Ok" THEN Err("Panic")
        ELSE IF converted.val.mag = Zero THEN Ok(Named(self.unit, self.int, Zero))
        ELSE Ok(Named(self.unit, self.int, Mod(self.mag, converted.val.mag)))

\* Mutant: the Rem of the inner integers, the right operand not converted.
RemRawIntegers(self, rhs) ==
    IF rhs.mag = Zero THEN Err("Panic")
    ELSE Ok(Named(self.unit, self.int, Mod(self.mag, rhs.mag)))

\* impl ops::Rem<Rhs> for $name<T>
Rem(self, rhs) == FixedPointRem(self, rhs)

\* FixedPoint::partial_cmp: the two quantities magnitude * scaling factor
\* compared exactly, by cross-multiplication.
FixedPointPartialCmp(self, rhs) ==
    LET a == Mul(Mul(self.mag, self.sf.numerator), rhs.sf.denominator)
        b == Mul(Mul(rhs.mag, rhs.sf.numerator), self.sf.denominator)
    IN  IF Less(a, b) THEN "Less" ELSE IF a = b THEN "Equal" ELSE "Greater"

\* FixedPoint::eq
FixedPointEq(self, rhs) == FixedPointPartialCmp(self, rhs) = "Equal"

\* Mutant: a derived PartialEq, the inner integers compared as they are.
EqRawIntegers(self, rhs) == self.mag = rhs.mag

\* impl PartialEq<Rhs> for $name<T>
Eq(self, rhs) == FixedPointEq(self, rhs)

\* impl PartialOrd<Rhs> for $name<T>
PartialCmp(self, rhs) == FixedPointPartialCmp(self, rhs)

\* ------------------------------------------------------------------------
\* The inputs drawn.
\* ------------------------------------------------------------------------

SmallMags == {Num(k) : k \in 0..MaxMag}

\* Magnitudes the documentation and the tests use, and the type boundaries.
BoundaryMags ==
    {Num(8), Num(60), Num(62), Num(246), Num(500), Lit(<<1, 999>>), Lit(<<2, 0>>),
     Lit(<<2, 1>>), Lit(<<3, 600>>), U32_MAX, Add(U32_MAX, One), U64_MAX}

Magnitudes(t) == {m \in SmallMags \cup BoundaryMags : Leq(m, MaxValue(t))}

\* Fraction components (u32).
Parts == {Num(k) : k \in 0..MaxPart} \cup {Num(10), Lit(<<1, 0>>)}

\* Every Fraction::new(n, d), and those that keep the invariant d # 0.
AnyFractions == {Fraction(n, d) : n \in Parts, d \in Parts}
Fractions == {f \in AnyFractions : f.denominator # Zero}

Durations ==
    UNION {UNION {{Named(u, t, m) : m \in Magnitudes(t)} : t \in IntTypes}
           : u \in DurationUnits}

\* Operands of %: the left ones, and the right ones.
RemLeftMags == SmallMags \cup {Num(62), U32_MAX, U64_MAX}
RemRightMags == SmallMags \cup {Num(60), Num(62), Num(500)}
RemLeft == {d \in Durations : d.mag \in RemLeftMags}
RemRight == {d \in Durations : d.mag \in RemRightMags}

\* Operands of + and -: the left ones, and the right ones.
ArithLeftMags == SmallMags \cup {Lit(<<2, 1>>), U32_MAX, U64_MAX}
ArithRightMags == SmallMags \cup {Num(60)}
ArithLeft == {d \in Durations : d.mag \in ArithLeftMags}
ArithRight == {d \in Durations : d.mag \in ArithRightMags}

\* core::time::Duration values: those of the documentation and the tests
\* (new(5, 730023852), from_nanos(5_025_678_901_234),
\* from_millis(u32::MAX as u64 + 1)) and the boundaries of u32 and u64.
CoreSecs ==
    SmallMags \cup {Num(5), Num(60), Lit(<<3, 600>>), Lit(<<5, 25>>),
                    Lit(<<4, 294, 967>>), U32_MAX, Add(U32_MAX, One), U64_MAX}
CoreNanos ==
    {Zero, One, Lit(<<295, 0, 0>>), Lit(<<296, 0, 0>>), Lit(<<678, 901, 234>>),
     Lit(<<730, 23, 852>>), Lit(<<999, 999, 999>>)}
CoreDurations == {CoreDuration(s, n) : s \in CoreSecs, n \in CoreNanos}

\* Operands of == and partial_cmp: a value a, and the value of a finer (or
\* the same) unit that is a's magnitude times the scale between the units,
\* or one finer unit away from it.
CompareMags == SmallMags \cup {U32_MAX}
CompareLeft == {d \in Durations : d.mag \in CompareMags}

\* How many of unit fine make one of unit coarse, when that is a whole number.
Scale(coarse, fine) ==
    LET c == ScalingFactor(coarse)
        f == ScalingFactor(fine)
        n == Mul(c.numerator, f.denominator)
        d == Mul(c.denominator, f.numerator)
    IN  IF Mod(n, d) = Zero THEN Some(Div(n, d)) ELSE None

\* a's magnitude in the finer unit, moved by delta \in -1..1; None when the
\* unit is not finer or the magnitude is negative or leaves representation t.
Scaled(a, unit, t, delta) ==
    LET k == Scale(a.unit, unit)
        m == IF k.some THEN Mul(a.mag, k.v) ELSE Zero
    IN  IF ~k.some \/ (delta = -1 /\ m = Zero) THEN None
        ELSE TryFromInt(t, IF delta = -1 THEN Sub(m, One)
                           ELSE IF delta = 1 THEN Add(m, One) ELSE m)

\* ------------------------------------------------------------------------
\* State: one call at a time.
\* ------------------------------------------------------------------------

VARIABLES
    op,     \* the operation called, "idle" between calls
    lhs,    \* its receiver / first operand
    rhs,    \* its second operand
    dest,   \* its destination type (a type parameter), as a zero of that type
    ret     \* what it returned

vars == <<op, lhs, rhs, dest, ret>>

NoType == [unit |-> "None", int |-> "u32"]
Type(unit, int) == [unit |-> unit, int |-> int]

Idle ==
    /\ op = "idle"
    /\ lhs = NoValue
    /\ rhs = NoValue
    /\ dest = NoType
    /\ ret = Err("None")

Init == Idle

\* value.checked_mul_fraction(&fraction)
CallCheckedMulFraction ==
    /\ op = "idle"
    /\ \E t \in IntTypes : \E value \in Magnitudes(t) : \E f \in AnyFractions :
        /\ op' = "checked_mul_fraction"
        /\ lhs' = IntOperand(t, value)
        /\ rhs' = FractionOperand(f)
        /\ dest' = NoType
        /\ ret' = IntResult(t, CheckedMulFraction(t, value, f))

\* value.checked_div_fraction(&fraction)
CallCheckedDivFraction ==
    /\ op = "idle"
    /\ \E t \in IntTypes : \E value \in Magnitudes(t) : \E f \in AnyFractions :
        /\ op' = "checked_div_fraction"
        /\ lhs' = IntOperand(t, value)
        /\ rhs' = FractionOperand(f)
        /\ dest' = NoType
        /\ ret' = IntResult(t, CheckedDivFraction(t, value, f))

\* $name::<DestInt>::try_from(Generic::new(integer, scaling_factor))
CallTryFromGeneric ==
    /\ op = "idle"
    /\ \E t \in IntTypes : \E m \in Magnitudes(t) : \E f \in Fractions :
       \E u \in DurationUnits : \E d \in IntTypes :
        /\ op' = "try_from_generic"
        /\ lhs' = Generic(t, m, f)
        /\ rhs' = NoValue
        /\ dest' = Type(u, d)
        /\ ret' = TryFromGeneric(Generic(t, m, f), u, d)

\* $name::<DestInt>::try_convert_from(duration)
CallTryConvertFrom ==
    /\ op = "idle"
    /\ \E a \in Durations : \E u \in DurationUnits : \E d \in IntTypes :
        /\ op' = "try_convert_from"
        /\ lhs' = a
        /\ rhs' = NoValue
        /\ dest' = Type(u, d)
        /\ ret' = TryConvertFrom(a, u, d)

\* The value just converted is converted back into the type it came from.
CallConvertBack ==
    /\ op = "try_convert_from"
    /\ ret.kind = "Ok"
    /\ op' = "convert_back"
    /\ lhs' = lhs
    /\ rhs' = ret.val
    /\ dest' = Type(lhs.unit, lhs.int)
    /\ ret' = TryConvertFrom(ret.val, lhs.unit, lhs.int)

\* duration.to_rate::<Rate>()
CallToRate ==
    /\ op = "idle"
    /\ \E a \in Durations : \E u \in RateUnits : \E d \in IntTypes :
        /\ op' = "to_rate"
        /\ lhs' = a
        /\ rhs' = NoValue
        /\ dest' = Type(u, d)
        /\ ret' = ToRate(a, u, d)

\* duration.to_generic::<DestInt>(scaling_factor)
CallToGeneric ==
    /\ op = "idle"
    /\ \E a \in Durations : \E f \in Fractions : \E d \in IntTypes :
        /\ op' = "to_generic"
        /\ lhs' = a
        /\ rhs' = FractionOperand(f)
        /\ dest' = Type("Generic", d)
        /\ ret' = ToGeneric(a, f, d)

\* core::time::Duration::try_from(duration)
CallToCore ==
    /\ op = "idle"
    /\ \E a \in Durations :
        /\ op' = "to_core"
        /\ lhs' = a
        /\ rhs' = NoValue
        /\ dest' = NoType
        /\ ret' = ToCore(a)

\* The core::time::Duration just obtained is converted back into the type
\* it came from.
CallCoreBack ==
    /\ op = "to_core"
    /\ ret.kind = "Ok"
    /\ op' = "core_back"
    /\ lhs' = lhs
    /\ rhs' = ret.val
    /\ dest' = Type(lhs.unit, lhs.int)
    /\ ret' = FromCore(ret.val, lhs.unit, lhs.int)

\* $name::<T>::try_from(core_duration)
CallFromCore ==
    /\ op = "idle"
    /\ \E c \in CoreDurations : \E u \in DurationUnits : \E d \in IntTypes :
        /\ op' = "from_core"
        /\ lhs' = c
        /\ rhs' = NoValue
        /\ dest' = Type(u, d)
        /\ ret' = FromCore(c, u, d)

\* a + b
CallAdd ==
    /\ op = "idle"
    /\ \E a \in ArithLeft : \E b \in ArithRight :
        /\ op' = "add"
        /\ lhs' = a
        /\ rhs' = b
        /\ dest' = NoType
        /\ ret' = Plus(a, b)

\* a - b
CallSub ==
    /\ op = "idle"
    /\ \E a \in ArithLeft : \E b \in ArithRight :
        /\ op' = "sub"
        /\ lhs' = a
        /\ rhs' = b
        /\ dest' = NoType
        /\ ret' = Minus(a, b)

\* a % b
CallRem ==
    /\ op = "idle"
    /\ \E a \in RemLeft : \E b \in RemRight :
        /\ op' = "rem"
        /\ lhs' = a
        /\ rhs' = b
        /\ dest' = NoType
        /\ ret' = Rem(a, b)

\* a == b, in either operand order
CallEq ==
    /\ op = "idle"
    /\ \E a \in CompareLeft : \E u \in DurationUnits : \E t \in IntTypes :
       \E delta \in -1..1 : \E swap \in BOOLEAN :
        LET m == Scaled(a, u, t, delta)
            b == Named(u, t, m.v)
        IN  /\ m.some
            /\ op' = "eq"
            /\ lhs' = IF swap THEN b ELSE a
            /\ rhs' = IF swap THEN a ELSE b
            /\ dest' = NoType
            /\ ret' = [kind |-> IF Eq(lhs', rhs') THEN "True" ELSE "False",
                       val |-> NoValue]

\* a.partial_cmp(&b), in either operand order
CallPartialCmp ==
    /\ op = "idle"
    /\ \E a \in CompareLeft : \E u \in DurationUnits : \E t \in IntTypes :
       \E delta \in -1..1 : \E swap \in BOOLEAN :
        LET m == Scaled(a, u, t, delta)
            b == Named(u, t, m.v)
        IN  /\ m.some
            /\ op' = "partial_cmp"
            /\ lhs' = IF swap THEN b ELSE a
            /\ rhs' = IF swap THEN a ELSE b
            /\ dest' = NoType
            /\ ret' = [kind |-> PartialCmp(lhs', rhs'), val |-> NoValue]

\* The call's value is consumed.
Return ==
    /\ op # "idle"
    /\ op' = "idle"
    /\ lhs' = NoValue
    /\ rhs' = NoValue
    /\ dest' = NoType
    /\ ret' = Err("None")

Next ==
    \/ CallCheckedMulFraction
    \/ CallCheckedDivFraction
    \/ CallTryFromGeneric
    \/ CallTryConvertFrom
    \/ CallConvertBack
    \/ CallToRate
    \/ CallToGeneric
    \/ CallToCore
    \/ CallCoreBack
    \/ CallFromCore
    \/ CallAdd
    \/ CallSub
    \/ CallRem
    \/ CallEq
    \/ CallPartialCmp
    \/ Return

Spec == Init /\ [][Next]_vars

\* ------------------------------------------------------------------------
\* Properties.
\* ------------------------------------------------------------------------

\* floor(v * Fs / Fd), the exact quotient, for Fs.denominator # 0 # Fd.numerator
ExactTicks(v, fs, fd) ==
    Div(Mul(Mul(v, fs.numerator), fd.denominator),
        Mul(fs.denominator, fd.numerator))

\* Fs / Fd in lowest terms
LowestTerms(n, d) ==
    LET g == Gcd(n, d) IN IF g = Zero THEN Fraction(n, d) ELSE Fraction(Div(n, g), Div(d, g))
Ratio(fs, fd) ==
    LowestTerms(Mul(fs.numerator, fd.denominator), Mul(fs.denominator, fd.numerator))

\* Fs / Fd is a Fraction: both products stay in u32
RatioFits(fs, fd) ==
    /\ Leq(Mul(fs.numerator, fd.denominator), U32_MAX)
    /\ Leq(Mul(fs.denominator, fd.numerator), U32_MAX)

\* C1: whenever the conversion of a Generic (magnitude v, scaling factor
\* Ns/Ds) into a named unit (scaling factor Nd/Dd) returns Ok, the value is of
\* the destination type and its magnitude is floor(v * Ns * Dd / (Ds * Nd)).
C1_TickConversionValue ==
    (op = "try_from_generic" /\ ret.kind = "Ok") =>
        ret.val = Named(dest.unit, dest.int,
                        ExactTicks(lhs.mag, lhs.sf, ScalingFactor(dest.unit)))

\* Generic::new(8_u32, Fraction::new(1, 3)) -> Seconds(2_u32): 2.67 truncated.
C1_Witness ==
    /\ op = "try_from_generic"
    /\ lhs = Generic("u32", Num(8), Fraction(One, Num(3)))
    /\ dest = Type("Seconds", "u32")
    /\ ret = Ok(Named("Seconds", "u32", Num(2)))

\* C2: converting a Generic into a named unit fails with Overflow when the
\* multiplication by the conversion factor overflows the representation the
\* computation uses (the wider of the two), and fails with ConversionFailure
\* exactly when that scaling succeeds and the scaled magnitude does not fit
\* the destination's integer type.
C2_OverflowVersusConversionFailure ==
    op = "try_from_generic" =>
        LET fd == ScalingFactor(dest.unit)
            c == Ratio(lhs.sf, fd)
            wide == Wider(lhs.int, dest.int)
            product == Mul(lhs.mag, c.numerator)
            scales == RatioFits(lhs.sf, fd) /\ Leq(product, MaxValue(wide))
        IN  /\ (RatioFits(lhs.sf, fd) /\ Less(MaxValue(wide), product))
                   => ret.kind = "Overflow"
            /\ ret.kind = "ConversionFailure"
                   <=> (scales /\ Less(MaxValue(dest.int), Div(product, c.denominator)))

\* Generic::new(u32::MAX as u64 + 1, Fraction::new(1, 1)) -> Seconds<u32>
C2_Witness ==
    /\ op = "try_from_generic"
    /\ lhs = Generic("u64", Add(U32_MAX, One), Fraction(One, One))
    /\ dest = Type("Seconds", "u32")
    /\ ret = Err("ConversionFailure")

\* C3: checked_mul_fraction(value, n/d) is Ok(floor(value * n / d)) when
\* value * n fits the value's type and d # 0, Overflow whenever value * n does
\* not fit (d = 0 included), DivByZero when it fits and d = 0.
C3_CheckedMulFraction ==
    op = "checked_mul_fraction" =>
        LET product == Mul(lhs.mag, rhs.sf.numerator)
            fits == Leq(product, MaxValue(lhs.int))
            d == rhs.sf.denominator
        IN  /\ (fits /\ d # Zero) => ret = Ok(IntOperand(lhs.int, Div(product, d)))
            /\ ~fits => ret = Err("Overflow")
            /\ (fits /\ d = Zero) => ret = Err("DivByZero")

\* 8_u32.checked_mul_fraction(&Fraction::new(1, 3)) == Ok(2)
C3_Witness ==
    /\ op = "checked_mul_fraction"
    /\ lhs = IntOperand("u32", Num(8))
    /\ rhs = FractionOperand(Fraction(One, Num(3)))
    /\ ret = Ok(IntOperand("u32", Num(2)))

\* C4: checked_div_fraction(value, n/d) is Ok(floor(value * d / n)) when
\* value * d fits the value's type and n # 0, Overflow when value * d does not
\* fit, DivByZero when it fits and n = 0.
C4_CheckedDivFraction ==
    op = "checked_div_fraction" =>
        LET product == Mul(lhs.mag, rhs.sf.denominator)
            fits == Leq(product, MaxValue(lhs.int))
            n == rhs.sf.numerator
        IN  /\ (fits /\ n # Zero) => ret = Ok(IntOperand(lhs.int, Div(product, n)))
            /\ ~fits => ret = Err("Overflow")
            /\ (fits /\ n = Zero) => ret = Err("DivByZero")

\* 8_u32.checked_div_fraction(&Fraction::new(3, 1)) == Ok(2)
C4_Witness ==
    /\ op = "checked_div_fraction"
    /\ lhs = IntOperand("u32", Num(8))
    /\ rhs = FractionOperand(Fraction(Num(3), One))
    /\ ret = Ok(IntOperand("u32", Num(2)))

\* The order of the integers a and b
Order(a, b) == IF Less(a, b) THEN "Less" ELSE IF a = b THEN "Equal" ELSE "Greater"

\* The order of x and y, x's unit being k times y's: that of k * x.mag and y.mag
ScaledOrder(x, y) ==
    LET k == Scale(x.unit, y.unit)
        j == Scale(y.unit, x.unit)
    IN  IF k.some THEN Order(Mul(x.mag, k.v), y.mag)
        ELSE Order(x.mag, Mul(y.mag, j.v))

FirstConversionExact ==
    LET f1 == ScalingFactor(lhs.unit)
        f2 == ScalingFactor(rhs.unit)
    IN  Mod(Mul(Mul(lhs.mag, f1.numerator), f2.denominator),
            Mul(f1.denominator, f2.numerator)) = Zero

\* C6 as stated: whenever both conversions of U1 -> U2 -> U1 succeed, the
\* round trip returns the magnitude it started from.
C6_RoundTripAlways ==
    (op = "convert_back" /\ ret.kind = "Ok") => ret.val = lhs

\* C6 as amended: whenever both conversions succeed and the magnitude is a
\* whole number of U2 units (the first conversion truncates nothing), the
\* round trip returns the value it started from.
C6_RoundTripExact ==
    (op = "convert_back" /\ ret.kind = "Ok" /\ FirstConversionExact) => ret.val = lhs

\* Milliseconds(2_000_u32) -> Seconds(2_u32) -> Milliseconds(2_000_u32)
C6_Witness ==
    /\ op = "convert_back"
    /\ lhs = Named("Milliseconds", "u32", Lit(<<2, 0>>))
    /\ rhs = Named("Seconds", "u32", Num(2))
    /\ ret = Ok(lhs)

\* N/D: the reciprocal of (duration scaling factor * rate scaling factor),
\* in lowest terms
RateFactor(durationUnit, rateUnit) ==
    LET fd == ScalingFactor(durationUnit)
        fr == ScalingFactor(rateUnit)
    IN  LowestTerms(Mul(fd.denominator, fr.denominator), Mul(fd.numerator, fr.numerator))

\* The representation to_rate computes in
RateInt == IF SizeOf(dest.int) > SizeOf(lhs.int) THEN dest.int ELSE lhs.int

\* C7: for a magnitude m # 0, to_rate returns Overflow when m * D overflows
\* the wider of the two integer types (the duration's when the widths are
\* equal), and otherwise Ok of the rate type with magnitude floor(N / (m * D)).
C7_ToRateValue ==
    (op = "to_rate" /\ lhs.mag # Zero) =>
        LET f == RateFactor(lhs.unit, dest.unit)
            divisor == Mul(lhs.mag, f.denominator)
        IN  IF Less(MaxValue(RateInt), divisor) THEN ret = Err("Overflow")
            ELSE ret = Ok(Named(dest.unit, dest.int, Div(f.numerator, divisor)))

\* Microseconds(500_u32).to_rate() == Ok(Kilohertz(2_u32))
C7_Witness ==
    /\ op = "to_rate"
    /\ lhs = Named("Microseconds", "u32", Num(500))
    /\ dest = Type("Kilohertz", "u32")
    /\ ret = Ok(Named("Kilohertz", "u32", Num(2)))

\* C8: to_rate of a zero magnitude is Err(DivByZero), for every duration unit,
\* rate unit and pair of integer types.
C8_ToRateOfZero ==
    (op = "to_rate" /\ lhs.mag = Zero) => ret = Err("DivByZero")

\* Seconds(0_u32).to_rate::<Hertz<u32>>() == Err(DivByZero)
C8_Witness ==
    /\ op = "to_rate"
    /\ lhs = Named("Seconds", "u32", Zero)
    /\ dest = Type("Hertz", "u32")
    /\ ret = Err("DivByZero")

\* The right operand of % as the left operand's type holds it
RemConverted == TryConvertFrom(rhs, lhs.unit, lhs.int)

\* C9: a % b is of a's type; when b converts into a's unit and integer type,
\* to r = floor(b.mag * Fb / Fa), the result is a.mag mod r for r # 0, and
\* for r = 0 it is zero, without a trap.
C9_RemainderResult ==
    (op = "rem" /\ RemConverted.kind = "Ok") =>
        LET r == ExactTicks(rhs.mag, ScalingFactor(rhs.unit), ScalingFactor(lhs.unit))
        IN  ret = Ok(Named(lhs.unit, lhs.int,
                           IF r = Zero THEN Zero ELSE Mod(lhs.mag, r)))

\* Minutes(62_u32) % Hours(1_u32) == Minutes(2_u32)
C9_Witness ==
    /\ op = "rem"
    /\ lhs = Named("Minutes", "u32", Num(62))
    /\ rhs = Named("Hours", "u32", One)
    /\ ret = Ok(Named("Minutes", "u32", Num(2)))

\* The right operand of % is not zero and converts to zero in the left's type
RemVanishes == rhs.mag # Zero /\ RemConverted = Ok(Named(lhs.unit, lhs.int, Zero))

\* C10 as stated: a right operand that truncates to zero in the left's
\* representation leaves the left operand unchanged.
C10_VanishingRemainderUnchanged ==
    (op = "rem" /\ RemVanishes) => ret = Ok(lhs)

\* C10 as amended: % takes the right operand truncated into the left
\* operand's type, and a right operand that truncates to zero in the left's
\* representation yields the zero of the left operand's type.
C10_VanishingRemainderZero ==
    op = "rem" =>
        /\ RemConverted.kind = "Ok" =>
            RemConverted.val =
                Named(lhs.unit, lhs.int,
                      ExactTicks(rhs.mag, ScalingFactor(rhs.unit), ScalingFactor(lhs.unit)))
        /\ RemVanishes => ret = Ok(Named(lhs.unit, lhs.int, Zero))

\* Minutes(62_u32) % Milliseconds(1_u32) == Minutes(0_u32)
C10_Witness ==
    /\ op = "rem"
    /\ lhs = Named("Minutes", "u32", Num(62))
    /\ rhs = Named("Milliseconds", "u32", One)
    /\ ret = Ok(Named("Minutes", "u32", Zero))

\* C11: to_generic(F) on a named duration (magnitude m, scaling factor Fs)
\* returns, when it returns Ok, a Generic of DestInt whose scaling factor is
\* F as given and whose magnitude is floor(m * Fs / F); it fails with
\* Overflow when the multiplication by the conversion factor overflows the
\* wider of the two representations, and with ConversionFailure exactly when
\* the scaling succeeds and the scaled magnitude does not fit DestInt.
C11_ToGeneric ==
    op = "to_generic" =>
        LET fs == ScalingFactor(lhs.unit)
            c == Ratio(fs, rhs.sf)
            wide == Wider(lhs.int, dest.int)
            product == Mul(lhs.mag, c.numerator)
            scales == /\ RatioFits(fs, rhs.sf)
                      /\ Leq(product, MaxValue(wide))
                      /\ c.denominator # Zero
        IN  /\ ret.kind = "Ok" =>
                ret.val = Generic(dest.int, ExactTicks(lhs.mag, fs, rhs.sf), rhs.sf)
            /\ (RatioFits(fs, rhs.sf) /\ Less(MaxValue(wide), product))
                   => ret.kind = "Overflow"
            /\ ret.kind = "ConversionFailure"
                   <=> (scales /\ Less(MaxValue(dest.int), Div(product, c.denominator)))
            /\ (scales /\ Leq(Div(product, c.denominator), MaxValue(dest.int)))
                   => ret.kind = "Ok"

\* Seconds(2_u64).to_generic(Fraction::new(1, 2)) == Ok(Generic::new(4_u32, 1/2))
C11_Witness ==
    /\ op = "to_generic"
    /\ lhs = Named("Seconds", "u64", Num(2))
    /\ rhs = FractionOperand(Fraction(One, Num(2)))
    /\ dest = Type("Generic", "u32")
    /\ ret = Ok(Generic("u32", Num(4), Fraction(One, Num(2))))

\* Seconds(u32::MAX).to_generic::<u32>(Fraction::new(1, 2)) == Err(Overflow)
C11_WitnessOverflow ==
    /\ op = "to_generic"
    /\ lhs = Named("Seconds", "u32", U32_MAX)
    /\ rhs = FractionOperand(Fraction(One, Num(2)))
    /\ dest = Type("Generic", "u32")
    /\ ret = Err("Overflow")

\* The right operand of + or - in the left operand's unit: floor(b.mag * Fb / Fa)
RightInLeftUnit == ExactTicks(rhs.mag, ScalingFactor(rhs.unit), ScalingFactor(lhs.unit))

\* C12: when the right operand converts into the left operand's unit and
\* integer type, a + b (a - b) is of a's type with magnitude a.mag plus
\* (minus) the converted right operand, and when that sum (difference) leaves
\* a's integer type the operator traps; a wrapped value is never returned.
C12_AddSubTrapOnOverflow ==
    /\ (op = "add" /\ RemConverted.kind = "Ok") =>
        LET sum == Add(lhs.mag, RightInLeftUnit)
        IN  IF Leq(sum, MaxValue(lhs.int))
            THEN ret = Ok(Named(lhs.unit, lhs.int, sum))
            ELSE ret = Err("Panic")
    /\ (op = "sub" /\ RemConverted.kind = "Ok") =>
        IF Leq(RightInLeftUnit, lhs.mag)
        THEN ret = Ok(Named(lhs.unit, lhs.int, Sub(lhs.mag, RightInLeftUnit)))
        ELSE ret = Err("Panic")

\* Seconds(u32::MAX) + Seconds(1_u32) panics
C12_Witness ==
    /\ op = "add"
    /\ lhs = Named("Seconds", "u32", U32_MAX)
    /\ rhs = Named("Seconds", "u32", One)
    /\ ret = Err("Panic")

\* Milliseconds(2_001_u32) - Seconds(1_u32) == Milliseconds(1_001_u32)
C12_WitnessSub ==
    /\ op = "sub"
    /\ lhs = Named("Milliseconds", "u32", Lit(<<2, 1>>))
    /\ rhs = Named("Seconds", "u32", One)
    /\ ret = Ok(Named("Milliseconds", "u32", Lit(<<1, 1>>)))

\* The duration lhs in whole seconds, for a unit of whole seconds.
WholeSeconds == Mul(lhs.mag, ScalingFactor(lhs.unit).numerator)

\* core::time::Duration has the range for lhs: its seconds fit u64.  (Below a
\* second, from_millis / from_micros / from_nanos take every u64.)
CoreHasRange == lhs.unit \in GeSecs => Leq(WholeSeconds, U64_MAX)

\* The round trip through core::time::Duration, failing with error.
CoreRoundTrip(error) ==
    /\ op = "to_core" =>
        /\ CoreHasRange => ret.kind = "Ok"
        /\ ~CoreHasRange => ret = Err(error)
    /\ op = "core_back" => ret = Ok(lhs)

\* C13 as stated: a duration of any unit over u32 or u64 converted to
\* core::time::Duration and back is the value it started from where both
\* representations have the range, and the conversion fails with
\* ConversionFailure, and with no other error, precisely where they do not.
C13_CoreRoundTripConversionFailure == CoreRoundTrip("ConversionFailure")

\* C13 as amended: the same round trip, the failure where the range is
\* missing (the whole seconds of Hours<u64> or Minutes<u64> leave u64) being
\* Overflow, and no other error.
C13_CoreRoundTripOverflow == CoreRoundTrip("Overflow")

\* Hours(123_u32) -> from_secs(123 * 3600) -> Hours(123_u32), for 2 hours
C13_Witness ==
    /\ op = "core_back"
    /\ lhs = Named("Hours", "u32", Num(2))
    /\ rhs = CoreDuration(Lit(<<7, 200>>), Zero)
    /\ ret = Ok(lhs)

\* Hours(u64::MAX) has no core::time::Duration
C13_WitnessNoRange ==
    /\ op = "to_core"
    /\ lhs = Named("Hours", "u64", U64_MAX)
    /\ ret.kind # "Ok"

\* The core::time::Duration lhs in the unit, truncated:
\* floor((secs * 10^9 + nanos) * Dd / (10^9 * Nd))
CoreInUnit(unit) ==
    ExactTicks(AsNanos(lhs), Fraction(One, NANOS_PER_SEC), ScalingFactor(unit))

\* C14: the conversion of a core::time::Duration into a named unit over u32
\* or u64 is Ok of the whole duration in that unit, truncated toward zero,
\* when that fits the integer type, and ConversionFailure when it does not;
\* never Overflow nor DivByZero.
C14_FromCoreTruncatesOrFails ==
    op = "from_core" =>
        IF Leq(CoreInUnit(dest.unit), MaxValue(dest.int))
        THEN ret = Ok(Named(dest.unit, dest.int, CoreInUnit(dest.unit)))
        ELSE ret = Err("ConversionFailure")

\* from_nanos(5_025_678_901_234) -> Ok(Minutes::<u32>(83))
C14_Witness ==
    /\ op = "from_core"
    /\ lhs = CoreDuration(Lit(<<5, 25>>), Lit(<<678, 901, 234>>))
    /\ dest = Type("Minutes", "u32")
    /\ ret = Ok(Named("Minutes", "u32", Num(83)))

\* Milliseconds::<u32>::try_from(from_millis(u32::MAX as u64 + 1))
C14_WitnessFailure ==
    /\ op = "from_core"
    /\ lhs = CoreDuration(Lit(<<4, 294, 967>>), Lit(<<296, 0, 0>>))
    /\ dest = Type("Milliseconds", "u32")
    /\ ret = Err("ConversionFailure")

\* C15: for a magnitude m # 0 whose product m * D stays in the integer type
\* to_rate computes in and exceeds N, to_rate returns Ok with the rate
\* magnitude 0; and to_rate returns DivByZero only for m = 0.
C15_ToRateWholeLossIsOk ==
    op = "to_rate" =>
        LET f == RateFactor(lhs.unit, dest.unit)
            divisor == Mul(lhs.mag, f.denominator)
        IN  /\ (lhs.mag # Zero /\ Leq(divisor, MaxValue(RateInt)) /\ Less(f.numerator, divisor))
                => ret = Ok(Named(dest.unit, dest.int, Zero))
            /\ ret.kind = "DivByZero" => lhs.mag = Zero

\* Seconds(2_u32).to_rate::<Hertz<u32>>() == Ok(Hertz(0_u32))
C15_Witness ==
    /\ op = "to_rate"
    /\ lhs = Named("Seconds", "u32", Num(2))
    /\ dest = Type("Hertz", "u32")
    /\ ret = Ok(Named("Hertz", "u32", Zero))

====
